---- MODULE Spec2Model ----
(***************************************************************************)
(* Relay operator scripts: version.py (release automation: bump the beta   *)
(* manifest, propagate to the primary manifest, tag/commit/push, query the *)
(* hosting platform) and debug-tools/watch.py (inotify watcher).           *)
(*                                                                         *)
(* Strings are sequences of one-character strings, so that split, int()    *)
(* and the f-string formatting are computed and not assumed.               *)
(***************************************************************************)
EXTENDS Integers, Sequences, FiniteSets, TLC

(***************************************************************************)
(* Bounds                                                                  *)
(***************************************************************************)
\* longest version string drawn by the bump_version harness
MaxLen == 6

\* most filesystem events delivered to the watcher
MaxEvents == 3

\* most SIGINTs sent to the watcher
MaxInterrupts == 2

(***************************************************************************)
(* Characters and strings                                                  *)
(***************************************************************************)
\* A character is a one-character string; a character outside printable ASCII
\* is written by its code point ("U+FF11" is FULLWIDTH DIGIT ONE).
DigitChars == <<"0", "1", "2", "3", "4", "5", "6", "7", "8", "9">>

\* the other decimal digits int() reads (Unicode category Nd), zero to nine
OtherDigitRows ==
    <<
      <<"U+0660", "U+0661", "U+0662", "U+0663", "U+0664", "U+0665", "U+0666", "U+0667", "U+0668", "U+0669">>,
      <<"U+06F0", "U+06F1", "U+06F2", "U+06F3", "U+06F4", "U+06F5", "U+06F6", "U+06F7", "U+06F8", "U+06F9">>,
      <<"U+07C0", "U+07C1", "U+07C2", "U+07C3", "U+07C4", "U+07C5", "U+07C6", "U+07C7", "U+07C8", "U+07C9">>,
      <<"U+0966", "U+0967", "U+0968", "U+0969", "U+096A", "U+096B", "U+096C", "U+096D", "U+096E", "U+096F">>,
      <<"U+09E6", "U+09E7", "U+09E8", "U+09E9", "U+09EA", "U+09EB", "U+09EC", "U+09ED", "U+09EE", "U+09EF">>,
      <<"U+0A66", "U+0A67", "U+0A68", "U+0A69", "U+0A6A", "U+0A6B", "U+0A6C", "U+0A6D", "U+0A6E", "U+0A6F">>,
      <<"U+0AE6", "U+0AE7", "U+0AE8", "U+0AE9", "U+0AEA", "U+0AEB", "U+0AEC", "U+0AED", "U+0AEE", "U+0AEF">>,
      <<"U+0B66", "U+0B67", "U+0B68", "U+0B69", "U+0B6A", "U+0B6B", "U+0B6C", "U+0B6D", "U+0B6E", "U+0B6F">>,
      <<"U+0BE6", "U+0BE7", "U+0BE8", "U+0BE9", "U+0BEA", "U+0BEB", "U+0BEC", "U+0BED", "U+0BEE", "U+0BEF">>,
      <<"U+0C66", "U+0C67", "U+0C68", "U+0C69", "U+0C6A", "U+0C6B", "U+0C6C", "U+0C6D", "U+0C6E", "U+0C6F">>,
      <<"U+0CE6", "U+0CE7", "U+0CE8", "U+0CE9", "U+0CEA", "U+0CEB", "U+0CEC", "U+0CED", "U+0CEE", "U+0CEF">>,
      <<"U+0D66", "U+0D67", "U+0D68", "U+0D69", "U+0D6A", "U+0D6B", "U+0D6C", "U+0D6D", "U+0D6E", "U+0D6F">>,
      <<"U+0DE6", "U+0DE7", "U+0DE8", "U+0DE9", "U+0DEA", "U+0DEB", "U+0DEC", "U+0DED", "U+0DEE", "U+0DEF">>,
      <<"U+0E50", "U+0E51", "U+0E52", "U+0E53", "U+0E54", "U+0E55", "U+0E56", "U+0E57", "U+0E58", "U+0E59">>,
      <<"U+0ED0", "U+0ED1", "U+0ED2", "U+0ED3", "U+0ED4", "U+0ED5", "U+0ED6", "U+0ED7", "U+0ED8", "U+0ED9">>,
      <<"U+0F20", "U+0F21", "U+0F22", "U+0F23", "U+0F24", "U+0F25", "U+0F26", "U+0F27", "U+0F28", "U+0F29">>,
      <<"U+1040", "U+1041", "U+1042", "U+1043", "U+1044", "U+1045", "U+1046", "U+1047", "U+1048", "U+1049">>,
      <<"U+1090", "U+1091", "U+1092", "U+1093", "U+1094", "U+1095", "U+1096", "U+1097", "U+1098", "U+1099">>,
      <<"U+17E0", "U+17E1", "U+17E2", "U+17E3", "U+17E4", "U+17E5", "U+17E6", "U+17E7", "U+17E8", "U+17E9">>,
      <<"U+1810", "U+1811", "U+1812", "U+1813", "U+1814", "U+1815", "U+1816", "U+1817", "U+1818", "U+1819">>,
      <<"U+1946", "U+1947", "U+1948", "U+1949", "U+194A", "U+194B", "U+194C", "U+194D", "U+194E", "U+194F">>,
      <<"U+19D0", "U+19D1", "U+19D2", "U+19D3", "U+19D4", "U+19D5", "U+19D6", "U+19D7", "U+19D8", "U+19D9">>,
      <<"U+1A80", "U+1A81", "U+1A82", "U+1A83", "U+1A84", "U+1A85", "U+1A86", "U+1A87", "U+1A88", "U+1A89">>,
      <<"U+1A90", "U+1A91", "U+1A92", "U+1A93", "U+1A94", "U+1A95", "U+1A96", "U+1A97", "U+1A98", "U+1A99">>,
      <<"U+1B50", "U+1B51", "U+1B52", "U+1B53", "U+1B54", "U+1B55", "U+1B56", "U+1B57", "U+1B58", "U+1B59">>,
      <<"U+1BB0", "U+1BB1", "U+1BB2", "U+1BB3", "U+1BB4", "U+1BB5", "U+1BB6", "U+1BB7", "U+1BB8", "U+1BB9">>,
      <<"U+1C40", "U+1C41", "U+1C42", "U+1C43", "U+1C44", "U+1C45", "U+1C46", "U+1C47", "U+1C48", "U+1C49">>,
      <<"U+1C50", "U+1C51", "U+1C52", "U+1C53", "U+1C54", "U+1C55", "U+1C56", "U+1C57", "U+1C58", "U+1C59">>,
      <<"U+A620", "U+A621", "U+A622", "U+A623", "U+A624", "U+A625", "U+A626", "U+A627", "U+A628", "U+A629">>,
      <<"U+A8D0", "U+A8D1", "U+A8D2", "U+A8D3", "U+A8D4", "U+A8D5", "U+A8D6", "U+A8D7", "U+A8D8", "U+A8D9">>,
      <<"U+A900", "U+A901", "U+A902", "U+A903", "U+A904", "U+A905", "U+A906", "U+A907", "U+A908", "U+A909">>,
      <<"U+A9D0", "U+A9D1", "U+A9D2", "U+A9D3", "U+A9D4", "U+A9D5", "U+A9D6", "U+A9D7", "U+A9D8", "U+A9D9">>,
      <<"U+A9F0", "U+A9F1", "U+A9F2", "U+A9F3", "U+A9F4", "U+A9F5", "U+A9F6", "U+A9F7", "U+A9F8", "U+A9F9">>,
      <<"U+AA50", "U+AA51", "U+AA52", "U+AA53", "U+AA54", "U+AA55", "U+AA56", "U+AA57", "U+AA58", "U+AA59">>,
      <<"U+ABF0", "U+ABF1", "U+ABF2", "U+ABF3", "U+ABF4", "U+ABF5", "U+ABF6", "U+ABF7", "U+ABF8", "U+ABF9">>,
      <<"U+FF10", "U+FF11", "U+FF12", "U+FF13", "U+FF14", "U+FF15", "U+FF16", "U+FF17", "U+FF18", "U+FF19">>,
      <<"U+104A0", "U+104A1", "U+104A2", "U+104A3", "U+104A4", "U+104A5", "U+104A6", "U+104A7", "U+104A8", "U+104A9">>,
      <<"U+10D30", "U+10D31", "U+10D32", "U+10D33", "U+10D34", "U+10D35", "U+10D36", "U+10D37", "U+10D38", "U+10D39">>,
      <<"U+11066", "U+11067", "U+11068", "U+11069", "U+1106A", "U+1106B", "U+1106C", "U+1106D", "U+1106E", "U+1106F">>,
      <<"U+110F0", "U+110F1", "U+110F2", "U+110F3", "U+110F4", "U+110F5", "U+110F6", "U+110F7", "U+110F8", "U+110F9">>,
      <<"U+11136", "U+11137", "U+11138", "U+11139", "U+1113A", "U+1113B", "U+1113C", "U+1113D", "U+1113E", "U+1113F">>,
      <<"U+111D0", "U+111D1", "U+111D2", "U+111D3", "U+111D4", "U+111D5", "U+111D6", "U+111D7", "U+111D8", "U+111D9">>,
      <<"U+112F0", "U+112F1", "U+112F2", "U+112F3", "U+112F4", "U+112F5", "U+112F6", "U+112F7", "U+112F8", "U+112F9">>,
      <<"U+11450", "U+11451", "U+11452", "U+11453", "U+11454", "U+11455", "U+11456", "U+11457", "U+11458", "U+11459">>,
      <<"U+114D0", "U+114D1", "U+114D2", "U+114D3", "U+114D4", "U+114D5", "U+114D6", "U+114D7", "U+114D8", "U+114D9">>,
      <<"U+11650", "U+11651", "U+11652", "U+11653", "U+11654", "U+11655", "U+11656", "U+11657", "U+11658", "U+11659">>,
      <<"U+116C0", "U+116C1", "U+116C2", "U+116C3", "U+116C4", "U+116C5", "U+116C6", "U+116C7", "U+116C8", "U+116C9">>,
      <<"U+11730", "U+11731", "U+11732", "U+11733", "U+11734", "U+11735", "U+11736", "U+11737", "U+11738", "U+11739">>,
      <<"U+118E0", "U+118E1", "U+118E2", "U+118E3", "U+118E4", "U+118E5", "U+118E6", "U+118E7", "U+118E8", "U+118E9">>,
      <<"U+11950", "U+11951", "U+11952", "U+11953", "U+11954", "U+11955", "U+11956", "U+11957", "U+11958", "U+11959">>,
      <<"U+11C50", "U+11C51", "U+11C52", "U+11C53", "U+11C54", "U+11C55", "U+11C56", "U+11C57", "U+11C58", "U+11C59">>,
      <<"U+11D50", "U+11D51", "U+11D52", "U+11D53", "U+11D54", "U+11D55", "U+11D56", "U+11D57", "U+11D58", "U+11D59">>,
      <<"U+11DA0", "U+11DA1", "U+11DA2", "U+11DA3", "U+11DA4", "U+11DA5", "U+11DA6", "U+11DA7", "U+11DA8", "U+11DA9">>,
      <<"U+16A60", "U+16A61", "U+16A62", "U+16A63", "U+16A64", "U+16A65", "U+16A66", "U+16A67", "U+16A68", "U+16A69">>,
      <<"U+16AC0", "U+16AC1", "U+16AC2", "U+16AC3", "U+16AC4", "U+16AC5", "U+16AC6", "U+16AC7", "U+16AC8", "U+16AC9">>,
      <<"U+16B50", "U+16B51", "U+16B52", "U+16B53", "U+16B54", "U+16B55", "U+16B56", "U+16B57", "U+16B58", "U+16B59">>,
      <<"U+1D7CE", "U+1D7CF", "U+1D7D0", "U+1D7D1", "U+1D7D2", "U+1D7D3", "U+1D7D4", "U+1D7D5", "U+1D7D6", "U+1D7D7">>,
      <<"U+1D7D8", "U+1D7D9", "U+1D7DA", "U+1D7DB", "U+1D7DC", "U+1D7DD", "U+1D7DE", "U+1D7DF", "U+1D7E0", "U+1D7E1">>,
      <<"U+1D7E2", "U+1D7E3", "U+1D7E4", "U+1D7E5", "U+1D7E6", "U+1D7E7", "U+1D7E8", "U+1D7E9", "U+1D7EA", "U+1D7EB">>,
      <<"U+1D7EC", "U+1D7ED", "U+1D7EE", "U+1D7EF", "U+1D7F0", "U+1D7F1", "U+1D7F2", "U+1D7F3", "U+1D7F4", "U+1D7F5">>,
      <<"U+1D7F6", "U+1D7F7", "U+1D7F8", "U+1D7F9", "U+1D7FA", "U+1D7FB", "U+1D7FC", "U+1D7FD", "U+1D7FE", "U+1D7FF">>,
      <<"U+1E140", "U+1E141", "U+1E142", "U+1E143", "U+1E144", "U+1E145", "U+1E146", "U+1E147", "U+1E148", "U+1E149">>,
      <<"U+1E2F0", "U+1E2F1", "U+1E2F2", "U+1E2F3", "U+1E2F4", "U+1E2F5", "U+1E2F6", "U+1E2F7", "U+1E2F8", "U+1E2F9">>,
      <<"U+1E950", "U+1E951", "U+1E952", "U+1E953", "U+1E954", "U+1E955", "U+1E956", "U+1E957", "U+1E958", "U+1E959">>,
      <<"U+1FBF0", "U+1FBF1", "U+1FBF2", "U+1FBF3", "U+1FBF4", "U+1FBF5", "U+1FBF6", "U+1FBF7", "U+1FBF8", "U+1FBF9">>
    >>

DigitRows == <<DigitChars>> \o OtherDigitRows

Digits == {DigitRows[r][i] : r \in 1..Len(DigitRows), i \in 1..10}

DigitVal(c) ==
    (CHOOSE i \in 1..10 : \E r \in 1..Len(DigitRows) : DigitRows[r][i] = c) - 1

\* the characters int() skips before and after the literal
Whitespace ==
    {"\t", "\n", "U+000B", "\f", "\r", " ", "U+0085", "U+00A0", "U+1680", "U+2000", "U+2001", "U+2002", "U+2003", "U+2004", "U+2005", "U+2006", "U+2007", "U+2008", "U+2009", "U+200A", "U+2028", "U+2029", "U+202F", "U+205F", "U+3000"}

\* sys.get_int_max_str_digits(): the most digits int() reads and str() writes
MaxStrDigits == 4300

\* characters the exhaustive harness builds version strings from
Alphabet == {"0", "9", "-", "."}

StringsUpTo(n) == UNION {[1..k -> Alphabet] : k \in 0..n}

\* further version strings: whitespace around a component, digits of other
\* scripts, a plus sign, an underscore; the last three are ones int() rejects
PaddedVersions ==
    {<<"1", ".", "2", ".", "3", "\n">>,
     <<"\t", "1", ".", "2", ".", "3">>,
     <<"1", ".", "U+00A0", "2", "\r", ".", " ", "3">>,
     <<"U+FF11", ".", "U+FF12", ".", "U+FF13">>,
     <<"+", "1", ".", "1", "_", "0", ".", "U+0663">>,
     <<"1", ".", "+", "\t", "2", ".", "3">>,
     <<"U+001C", "1", ".", "2", ".", "3">>,
     <<"1", ".", "2", "_", "_", "0", ".", "3">>}

\* MAJOR.0.0 with a major of MaxStrDigits + 1 nines
LongVersion == [i \in 1..(MaxStrDigits + 1) |-> "9"] \o <<".", "0", ".", "0">>

\* position of the k-th dot of s; 0 for k = 0 and Len(s) + 1 past the last dot
DotAt(s, k) ==
    LET dots == {i \in 1..Len(s) : s[i] = "."}
    IN IF k = 0 THEN 0
       ELSE IF k > Cardinality(dots) THEN Len(s) + 1
       ELSE CHOOSE i \in dots : Cardinality({j \in dots : j < i}) = k - 1

\* str.split('.'): the pieces between the dots, empty pieces kept
Split(s) ==
    LET n == Cardinality({i \in 1..Len(s) : s[i] = "."})
    IN [k \in 1..(n + 1) |-> SubSeq(s, DotAt(s, k - 1) + 1, DotAt(s, k) - 1)]

\* the whitespace int() skips on the left and on the right of its argument
RECURSIVE LStrip(_)
LStrip(s) == IF s # <<>> /\ Head(s) \in Whitespace THEN LStrip(Tail(s)) ELSE s

RECURSIVE RStrip(_)
RStrip(s) ==
    IF s # <<>> /\ s[Len(s)] \in Whitespace THEN RStrip(SubSeq(s, 1, Len(s) - 1)) ELSE s

Strip(s) == RStrip(LStrip(s))

HasSign(s) == s # <<>> /\ Head(s) \in {"+", "-"}

\* the literal without surrounding whitespace and sign
Body(s) == LET t == Strip(s) IN IF HasSign(t) THEN Tail(t) ELSE t

\* digits, single underscores allowed between two digits
IsDigitBody(b) ==
    /\ b # <<>>
    /\ \A i \in 1..Len(b) : b[i] \in Digits \cup {"_"}
    /\ b[1] \in Digits
    /\ b[Len(b)] \in Digits
    /\ \A i \in 1..(Len(b) - 1) : ~(b[i] = "_" /\ b[i + 1] = "_")

\* the digits of a literal, leading zeros counted, underscores not
DigitCount(b) == Cardinality({i \in 1..Len(b) : b[i] \in Digits})

\* int(s) succeeds (base 10)
IsIntLiteral(s) == IsDigitBody(Body(s)) /\ DigitCount(Body(s)) <= MaxStrDigits

RECURSIVE NatOf(_)
NatOf(b) ==
    IF b = <<>> THEN 0
    ELSE IF b[Len(b)] = "_" THEN NatOf(SubSeq(b, 1, Len(b) - 1))
    ELSE 10 * NatOf(SubSeq(b, 1, Len(b) - 1)) + DigitVal(b[Len(b)])

\* int(s) for an accepted literal
IntOf(s) ==
    LET t == Strip(s)
    IN IF HasSign(t) /\ Head(t) = "-" THEN 0 - NatOf(Body(s)) ELSE NatOf(Body(s))

RECURSIVE NatStr(_)
NatStr(n) ==
    IF n < 10 THEN <<DigitChars[n + 1]>>
    ELSE Append(NatStr(n \div 10), DigitChars[(n % 10) + 1])

\* str(n) of a Python int, as the f-string renders it
IntStr(n) == IF n < 0 THEN <<"-">> \o NatStr(0 - n) ELSE NatStr(n)

(***************************************************************************)
(* bump_version, the pure part                                             *)
(***************************************************************************)
VersionTypes == {"major", "minor", "patch", "force"}

\* major, minor, patch = map(int, current_version.split('.')) does not raise
Unpacks(current_version) ==
    LET parts == Split(current_version)
    IN /\ Len(parts) = 3
       /\ \A i \in 1..3 : IsIntLiteral(parts[i])

ParseVersion(current_version) ==
    LET parts == Split(current_version)
    IN [i \in 1..3 |-> IntOf(parts[i])]

\* faulty variant: the minor branch forgets patch = 0
BumpTriple_KeepPatch(t, version_type) ==
    CASE version_type = "major" -> <<t[1] + 1, 0, 0>>
      [] version_type = "minor" -> <<t[1], t[2] + 1, t[3]>>
      [] version_type = "patch" -> <<t[1], t[2], t[3] + 1>>
      [] OTHER -> <<t[1], t[2], t[3]>>

\* faulty variant: force falls into the patch branch
BumpTriple_ForcePatch(t, version_type) ==
    CASE version_type = "major" -> <<t[1] + 1, 0, 0>>
      [] version_type = "minor" -> <<t[1], t[2] + 1, 0>>
      [] OTHER -> <<t[1], t[2], t[3] + 1>>

\* the if/elif chain of bump_version on the parsed triple
BumpTriple(t, version_type) ==
    CASE version_type = "major" -> <<t[1] + 1, 0, 0>>
      [] version_type = "minor" -> <<t[1], t[2] + 1, 0>>
      [] version_type = "patch" -> <<t[1], t[2], t[3] + 1>>
      [] OTHER -> <<t[1], t[2], t[3]>>

\* f"{major}.{minor}.{patch}"
FormatVersion(t) == IntStr(t[1]) \o <<".">> \o IntStr(t[2]) \o <<".">> \o IntStr(t[3])

\* the f-string renders the three integers: str() of each does not raise
Formats(t) ==
    \A i \in 1..3 : Len(NatStr(IF t[i] < 0 THEN 0 - t[i] ELSE t[i])) <= MaxStrDigits

NewVersion(current_version, version_type) ==
    FormatVersion(BumpTriple(ParseVersion(current_version), version_type))

(***************************************************************************)
(* Manifest files and the repository                                       *)
(***************************************************************************)
\* sample version strings of the release run: canonical, leading zero, two parts
V123 == <<"1", ".", "2", ".", "3">>

V0123 == <<"0", "1", ".", "2", ".", "3">>

V12 == <<"1", ".", "2">>

V124 == <<"1", ".", "2", ".", "4">>

SampleVersions == {V123, V0123, V12}

PluginId == <<"r", "e", "l", "a", "y">>

\* A file: fault is what open() or json.load raise on it ("" when it loads),
\* object says it holds a JSON object, str_version that its version is a JSON
\* string, layout whether its bytes are what json.dump(data, file, indent=2)
\* writes ("dump") or some other rendering of the same data ("other").
Unreadable(e) ==
    [fault |-> e, object |-> FALSE, str_version |-> FALSE, layout |-> "other",
     data |-> [id |-> <<>>]]

\* a file that does not exist
Absent == Unreadable("FileNotFoundError")

\* a file whose bytes are not UTF-8
NotUtf8 == Unreadable("UnicodeDecodeError")

\* a text file json.load rejects
Malformed == Unreadable("JSONDecodeError")

\* a JSON document that is not an object (an array)
NotObject == Unreadable("")

\* a JSON object without a version field
NoVersion ==
    [fault |-> "", object |-> TRUE, str_version |-> FALSE, layout |-> "other",
     data |-> [id |-> PluginId]]

WithVersion(v) ==
    [fault |-> "", object |-> TRUE, str_version |-> TRUE, layout |-> "dump",
     data |-> [id |-> PluginId, version |-> v]]

\* a JSON object whose version is the number 7
NumberVersion == [WithVersion(<<"7">>) EXCEPT !.str_version = FALSE]

\* the same data written another way (a final newline, another indentation)
Reformatted(file) == [file EXCEPT !.layout = "other"]

Loads(file) == file.fault = ""

HasVersion(file) == Loads(file) /\ file.object /\ "version" \in DOMAIN file.data

\* data['version'] = new_version; json.dump(data, file, indent=2)
Dumped(file, new_version) ==
    [fault |-> "", object |-> TRUE, str_version |-> TRUE, layout |-> "dump",
     data |-> [k \in DOMAIN file.data \cup {"version"} |->
                 IF k = "version" THEN new_version ELSE file.data[k]]]

BetaFiles ==
    {Absent, NotUtf8, Malformed, NotObject, NoVersion, NumberVersion,
     Reformatted(WithVersion(V123))}
        \cup {WithVersion(v) : v \in SampleVersions}

ManifestFiles ==
    {Absent, NotUtf8, Malformed, NotObject, NoVersion, WithVersion(V123),
     Reformatted(WithVersion(V123))}

Remotes == {"origin", "upstream"}

Unset == "<unset>"

\* tag names that may exist before the run
TagNames == {V123, V124}

\* the tree of a commit: the two manifest files as committed
Tree(m, b) == [manifest |-> m, beta |-> b]

OldTree == Tree(WithVersion(V12), WithVersion(V12))

SleepSeconds == 30

VARIABLES
    pc,                \* position of version.py's main
    version_type,      \* the click argument
    env_ORIGIN,        \* environment variable ORIGIN, or Unset
    push_default,      \* the remote a bare "git push" of the branch goes to
    beta,              \* manifest-beta.json
    manifest,          \* manifest.json
    current_version,   \* bump_version's local: data['version'] as read
    new_beta_version,  \* main's local
    new_version,       \* main's local
    index,             \* git index (the two manifests)
    head,              \* tree of HEAD
    localTags,         \* local tags: name -> tree of the tagged commit
    remoteTags,        \* remote -> set of tag names
    remoteBranch,      \* remote -> tree of the branch tip there
    branch_push,       \* the branch push as issued: remote and force flag
    waited,            \* seconds slept
    err,               \* the unhandled exception, if any
    trace,             \* steps attempted so far, with their outcome
    out,               \* lines printed by version.py
    w_pc,              \* position of watch.py
    w_argv,            \* sys.argv[1:] of watch.py
    delivered,         \* events yielded by inotify.event_gen so far
    printed,           \* lines written by watch.py, each a sequence of texts
    w_open,            \* the last line of printed has no newline yet
    interrupts,        \* SIGINTs received by watch.py
    w_pending          \* a SIGINT was received and no handler has run for it yet

bumpVars == <<version_type, beta, manifest, current_version, new_beta_version, new_version>>

gitVars == <<index, head, localTags, remoteTags, remoteBranch, branch_push>>

envVars == <<env_ORIGIN, push_default>>

runVars == <<pc, err, trace, out, waited>>

watchVars == <<w_pc, w_argv, delivered, printed, w_open, interrupts, w_pending>>

vars == <<runVars, bumpVars, gitVars, envVars, watchVars>>

\* REMOTE = os.environ.get("ORIGIN", "origin")
REMOTE == IF env_ORIGIN = Unset THEN "origin" ELSE env_ORIGIN

NoPush == [attempted |-> FALSE, remote |-> "", force |-> FALSE]

Raise(e) ==
    /\ pc' = "crashed"
    /\ err' = e

Log(op, outcome) == trace' = Append(trace, <<op, outcome>>)

(***************************************************************************)
(* version.py                                                              *)
(***************************************************************************)
\* lines 65-69: the locals of main; git.Repo('.') raises outside a repository
OpenRepo ==
    /\ pc = "main"
    /\ \/ /\ pc' = "bump_version"
          /\ UNCHANGED err
       \/ Raise("InvalidGitRepositoryError")
    /\ UNCHANGED <<trace, out, waited, bumpVars, gitVars, envVars, watchVars>>

\* faulty variant: no else branch, an unknown mode behaves like force
InvalidVersionType_Accepts(t) == FALSE

\* the else branch of bump_version's if/elif chain
InvalidVersionType(t) == t \notin VersionTypes

\* what set_version raises before it writes, "" when it writes
SetError(file) ==
    IF ~Loads(file) THEN file.fault
    ELSE IF ~file.object THEN "TypeError"
    ELSE ""

\* what bump_version raises before it writes, "" when it writes
BumpError(file, t) ==
    IF ~Loads(file) THEN file.fault
    ELSE IF ~file.object THEN "TypeError"
    ELSE IF "version" \notin DOMAIN file.data THEN "KeyError"
    ELSE IF ~file.str_version THEN "AttributeError"
    ELSE IF ~Unpacks(file.data.version) THEN "ValueError: int/unpack"
    ELSE IF InvalidVersionType(t) THEN "ValueError: Invalid version type"
    ELSE IF ~Formats(BumpTriple(ParseVersion(file.data.version), t))
         THEN "ValueError: str"
    ELSE ""

\* new_beta_version = bump_version(beta_manifest_file, version_type)
bump_version ==
    /\ pc = "bump_version"
    /\ current_version' = IF HasVersion(beta) THEN beta.data.version ELSE current_version
    /\ IF BumpError(beta, version_type) # ""
       THEN /\ Raise(BumpError(beta, version_type))
            /\ UNCHANGED <<beta, new_beta_version, trace>>
       ELSE /\ beta' = Dumped(beta, NewVersion(beta.data.version, version_type))
            /\ new_beta_version' = NewVersion(beta.data.version, version_type)
            /\ Log("write_beta", "ok")
            /\ pc' = "set_version"
            /\ UNCHANGED err
    /\ UNCHANGED <<version_type, manifest, new_version, out, waited, gitVars, envVars, watchVars>>

\* faulty variant: set_version returns the version without dumping it to the file
set_version_NoWrite ==
    /\ pc = "set_version"
    /\ IF SetError(manifest) # ""
       THEN /\ Raise(SetError(manifest))
            /\ UNCHANGED <<manifest, new_version, trace>>
       ELSE /\ UNCHANGED manifest
            /\ new_version' = new_beta_version
            /\ Log("write_manifest", "ok")
            /\ pc' = "delete_remote_tag"
            /\ UNCHANGED err
    /\ UNCHANGED <<version_type, beta, current_version, new_beta_version, out, waited,
                   gitVars, envVars, watchVars>>

\* new_version = set_version(manifest_file, new_beta_version)
set_version ==
    /\ pc = "set_version"
    /\ IF SetError(manifest) # ""
       THEN /\ Raise(SetError(manifest))
            /\ UNCHANGED <<manifest, new_version, trace>>
       ELSE /\ manifest' = Dumped(manifest, new_beta_version)
            /\ new_version' = new_beta_version
            /\ Log("write_manifest", "ok")
            /\ pc' = "delete_remote_tag"
            /\ UNCHANGED err
    /\ UNCHANGED <<version_type, beta, current_version, new_beta_version, out, waited,
                   gitVars, envVars, watchVars>>

\* delete_tag, first try block: repo.git.push('--delete', REMOTE, tag_name)
delete_tag_remote ==
    /\ pc = "delete_remote_tag"
    /\ \/ /\ new_version \in remoteTags[REMOTE]
          /\ remoteTags' = [remoteTags EXCEPT ![REMOTE] = @ \ {new_version}]
          /\ Log("delete_remote_tag", "ok")
       \/ /\ UNCHANGED remoteTags
          /\ Log("delete_remote_tag", "swallowed")
    /\ pc' = "delete_local_tag"
    /\ UNCHANGED <<err, out, waited, bumpVars, index, head, localTags, remoteBranch,
                   branch_push, envVars, watchVars>>

\* faulty variant: the local deletion is not wrapped in try/except
delete_tag_local_NoCatch ==
    /\ pc = "delete_local_tag"
    /\ \/ /\ new_version \in DOMAIN localTags
          /\ localTags' = [n \in DOMAIN localTags \ {new_version} |-> localTags[n]]
          /\ Log("delete_local_tag", "ok")
          /\ pc' = "add"
          /\ UNCHANGED err
       \/ /\ UNCHANGED localTags
          /\ Log("delete_local_tag", "raised")
          /\ Raise("GitCommandError")
    /\ UNCHANGED <<out, waited, bumpVars, index, head, remoteTags, remoteBranch,
                   branch_push, envVars, watchVars>>

\* delete_tag, second try block: repo.delete_tag(tag_name)
delete_tag_local ==
    /\ pc = "delete_local_tag"
    /\ \/ /\ new_version \in DOMAIN localTags
          /\ localTags' = [n \in DOMAIN localTags \ {new_version} |-> localTags[n]]
          /\ Log("delete_local_tag", "ok")
       \/ /\ UNCHANGED localTags
          /\ Log("delete_local_tag", "swallowed")
    /\ pc' = "add"
    /\ UNCHANGED <<err, out, waited, bumpVars, index, head, remoteTags, remoteBranch,
                   branch_push, envVars, watchVars>>

\* repo.git.add(manifest_file); repo.git.add(beta_manifest_file)
StageManifests ==
    /\ pc = "add"
    /\ \/ /\ index' = Tree(manifest, beta)
          /\ Log("add", "ok")
          /\ pc' = "commit"
          /\ UNCHANGED err
       \/ /\ index' = Tree(manifest, index.beta)
          /\ Log("add", "raised")
          /\ Raise("GitCommandError")
       \/ /\ UNCHANGED index
          /\ Log("add", "raised")
          /\ Raise("GitCommandError")
    /\ UNCHANGED <<out, waited, bumpVars, head, localTags, remoteTags, remoteBranch,
                   branch_push, envVars, watchVars>>

\* try: repo.git.commit(m=...) except git.exc.GitCommandError: pass
\* (git compares the staged bytes with HEAD: a file rewritten in another layout
\* is a change even when its data is the same)
Commit ==
    /\ pc = "commit"
    /\ \/ /\ index # head
          /\ head' = index
          /\ Log("commit", "ok")
       \/ /\ UNCHANGED head
          /\ Log("commit", "swallowed")
    /\ pc' = "push"
    /\ UNCHANGED <<err, out, waited, bumpVars, index, localTags, remoteTags, remoteBranch,
                   branch_push, envVars, watchVars>>

\* force = (version_type == 'force'); repo.git.push(force=force)
PushBranch ==
    /\ pc = "push"
    /\ branch_push' = [attempted |-> TRUE, remote |-> push_default,
                       force |-> (version_type = "force")]
    /\ \/ /\ remoteBranch' = [remoteBranch EXCEPT ![push_default] = head]
          /\ Log("push", "ok")
          /\ pc' = "create_tag"
          /\ UNCHANGED err
       \/ /\ UNCHANGED remoteBranch
          /\ Log("push", "raised")
          /\ Raise("GitCommandError")
    /\ UNCHANGED <<out, waited, bumpVars, index, head, localTags, remoteTags, envVars,
                   watchVars>>

\* repo.create_tag(new_version)
CreateTag ==
    /\ pc = "create_tag"
    /\ IF new_version \in DOMAIN localTags
       THEN /\ UNCHANGED localTags
            /\ Log("create_tag", "raised")
            /\ Raise("GitCommandError")
       ELSE /\ localTags' = [n \in DOMAIN localTags \cup {new_version} |->
                               IF n = new_version THEN head ELSE localTags[n]]
            /\ Log("create_tag", "ok")
            /\ pc' = "push_tag"
            /\ UNCHANGED err
    /\ UNCHANGED <<out, waited, bumpVars, index, head, remoteTags, remoteBranch,
                   branch_push, envVars, watchVars>>

\* remote = repo.remote(name=REMOTE); remote.push(new_version)
PushTag ==
    /\ pc = "push_tag"
    /\ \/ /\ new_version \notin remoteTags[REMOTE]
          /\ remoteTags' = [remoteTags EXCEPT ![REMOTE] = @ \cup {new_version}]
          /\ Log("push_tag", "ok")
          /\ pc' = "sleep"
          /\ UNCHANGED err
       \/ /\ UNCHANGED remoteTags
          /\ Log("push_tag", "rejected")
          /\ pc' = "sleep"
          /\ UNCHANGED err
       \/ /\ UNCHANGED remoteTags
          /\ Log("push_tag", "raised")
          /\ Raise("GitCommandError")
    /\ UNCHANGED <<out, waited, bumpVars, index, head, localTags, remoteBranch,
                   branch_push, envVars, watchVars>>

WaitingLine == <<"Waiting for GitHub to create the release...">>

\* print("Waiting ..."); time.sleep(30)
Sleep ==
    /\ pc = "sleep"
    /\ out' = Append(out, WaitingLine)
    /\ waited' = waited + SleepSeconds
    /\ Log("sleep", "ok")
    /\ pc' = "get_releases"
    /\ UNCHANGED <<err, bumpVars, gitVars, envVars, watchVars>>

CreatedLine(v) == <<"Release ", v, " created successfully.">>

NotFoundLine(v) == <<"Release ", v, " not found.">>

\* faulty variant: a release that is not found is waited for again
GetReleases_Retry ==
    /\ pc = "get_releases"
    /\ \/ \E release_names \in SUBSET {new_version, V12} :
             /\ out' = Append(out, IF new_version \in release_names
                                   THEN CreatedLine(new_version)
                                   ELSE NotFoundLine(new_version))
             /\ Log("get_releases", "ok")
             /\ pc' = IF new_version \in release_names THEN "done" ELSE "sleep"
             /\ UNCHANGED err
       \/ /\ UNCHANGED out
          /\ Log("get_releases", "raised")
          /\ Raise("GithubException")
    /\ UNCHANGED <<waited, bumpVars, gitVars, envVars, watchVars>>

\* g.get_repo(repo_name).get_releases(); new_version in release_names
GetReleases ==
    /\ pc = "get_releases"
    /\ \/ \E release_names \in SUBSET {new_version, V12} :
             /\ out' = Append(out, IF new_version \in release_names
                                   THEN CreatedLine(new_version)
                                   ELSE NotFoundLine(new_version))
             /\ Log("get_releases", "ok")
             /\ pc' = "done"
             /\ UNCHANGED err
       \/ /\ UNCHANGED out
          /\ Log("get_releases", "raised")
          /\ Raise("GithubException")
    /\ UNCHANGED <<waited, bumpVars, gitVars, envVars, watchVars>>

WatchOff ==
    /\ w_pc = "off"
    /\ w_argv = <<>>
    /\ delivered = <<>>
    /\ printed = <<>>
    /\ w_open = FALSE
    /\ interrupts = 0
    /\ w_pending = FALSE

RunInit ==
    /\ err = ""
    /\ trace = <<>>
    /\ out = <<>>
    /\ waited = 0
    /\ current_version = <<>>
    /\ new_beta_version = <<>>
    /\ new_version = <<>>
    /\ branch_push = NoPush

\* the state main of version.py is started in
Init ==
    /\ pc = "main"
    /\ RunInit
    /\ version_type \in VersionTypes \cup {"bogus"}
    /\ env_ORIGIN \in {Unset, "upstream"}
    /\ push_default \in Remotes
    /\ beta \in BetaFiles
    /\ manifest \in ManifestFiles
    /\ head \in {Tree(manifest, beta), OldTree}
    /\ index = head
    /\ \E names \in SUBSET TagNames : localTags = [n \in names |-> OldTree]
    /\ remoteTags \in [Remotes -> SUBSET TagNames]
    /\ remoteBranch = [r \in Remotes |-> head]
    /\ WatchOff

Next ==
    \/ OpenRepo
    \/ bump_version
    \/ set_version
    \/ delete_tag_remote
    \/ delete_tag_local
    \/ StageManifests
    \/ Commit
    \/ PushBranch
    \/ CreateTag
    \/ PushTag
    \/ Sleep
    \/ GetReleases

Spec == Init /\ [][Next]_vars

(***************************************************************************)
(* bump_version and set_version on every version string up to MaxLen       *)
(***************************************************************************)
InitBump ==
    /\ pc = "bump_version"
    /\ RunInit
    /\ version_type \in VersionTypes \cup {"bogus"}
    /\ env_ORIGIN = Unset
    /\ push_default = "origin"
    /\ beta \in {WithVersion(v) :
                   v \in StringsUpTo(MaxLen) \cup PaddedVersions \cup {LongVersion}}
    /\ manifest \in {NoVersion, WithVersion(V123)}
    /\ head = Tree(manifest, beta)
    /\ index = head
    /\ localTags = [n \in {} |-> OldTree]
    /\ remoteTags = [r \in Remotes |-> {}]
    /\ remoteBranch = [r \in Remotes |-> head]
    /\ WatchOff

NextBump ==
    \/ bump_version
    \/ set_version

SpecBump == InitBump /\ [][NextBump]_vars

(***************************************************************************)
(* debug-tools/watch.py                                                    *)
(***************************************************************************)
WatchDir == "/tmp/d"

\* type_names of the events inotify delivers
TypeNameLists ==
    {<<"IN_MODIFY">>, <<"IN_CREATE">>, <<"IN_DELETE">>, <<"IN_MOVED_FROM">>,
     <<"IN_CREATE", "IN_ISDIR">>}

\* (_, type_names, path, filename) of a recursive watch rooted at directory
Events(directory) ==
    [type_names : TypeNameLists,
     path : {<<directory>>, <<directory, "/sub">>},
     filename : {"x.txt"}]

\* faulty variant: the test looks for the creation type as well
IsModify_OrCreate(event) ==
    \E i \in 1..Len(event.type_names) : event.type_names[i] \in {"IN_MODIFY", "IN_CREATE"}

\* 'IN_MODIFY' in type_names
IsModify(event) == \E i \in 1..Len(event.type_names) : event.type_names[i] = "IN_MODIFY"

\* f"Modified file: {path}/{filename}"
ModifiedLine(event) == <<"Modified file: ">> \o event.path \o <<"/", event.filename>>

ListeningLine(directory) == <<"Listening for changes in: ", directory>>

StoppingLine == <<"Stopping...">>

UsageLine == <<"Usage: python watch.py <directory>">>

\* sys.stdout.write(text): after the last line if that one is still open
Wrote(text) ==
    IF w_open
    THEN [printed EXCEPT ![Len(printed)] = @ \o text]
    ELSE Append(printed, text)

\* The process receives SIGINT: the interpreter notes it and runs the handler
\* installed for it before the program's next step; SIGINTs received before
\* that share the one call.
Sigint ==
    /\ w_pc \notin {"off", "exit0", "exit1", "crashed"}
    /\ interrupts < MaxInterrupts
    /\ interrupts' = interrupts + 1
    /\ w_pending' = TRUE
    /\ UNCHANGED <<w_pc, w_argv, delivered, printed, w_open, runVars, bumpVars, gitVars,
                   envVars>>

\* __main__, line 22, print: the text is written, its newline not yet
WatchUsage ==
    /\ w_pc = "start"
    /\ ~w_pending
    /\ Len(w_argv) < 1
    /\ printed' = Wrote(UsageLine)
    /\ w_open' = TRUE
    /\ w_pc' = "usage_nl"
    /\ UNCHANGED <<w_argv, delivered, interrupts, w_pending, runVars, bumpVars, gitVars,
                   envVars>>

\* a SIGINT noted while signal_handler is not installed (before line 12, and in
\* the usage branch): Python's default handler raises KeyboardInterrupt
KeyboardInterrupt ==
    /\ w_pc \in {"start", "usage_nl", "usage"}
    /\ w_pending
    /\ w_pending' = FALSE
    /\ w_pc' = "crashed"
    /\ UNCHANGED <<w_argv, delivered, printed, w_open, interrupts, runVars, bumpVars,
                   gitVars, envVars>>

\* main, lines 6-12: InotifyTree(directory) raises on a bad directory;
\* signal.signal installs signal_handler, which then also serves a SIGINT
\* received just before and not yet handled
WatchMain ==
    /\ w_pc = "start"
    /\ Len(w_argv) >= 1
    /\ \/ w_pc' = "installed"
       \/ w_pc' = "crashed"
    /\ UNCHANGED <<w_argv, delivered, printed, w_open, interrupts, w_pending, runVars,
                   bumpVars, gitVars, envVars>>

\* line 13, print: the text is written, its newline not yet
PrintListening ==
    /\ w_pc = "installed"
    /\ ~w_pending
    /\ printed' = Wrote(ListeningLine(w_argv[1]))
    /\ w_open' = TRUE
    /\ w_pc' = "listening_nl"
    /\ UNCHANGED <<w_argv, delivered, interrupts, w_pending, runVars, bumpVars, gitVars,
                   envVars>>

\* the newline that ends a print: of line 13 or 18, then the loop waits; of
\* line 9 or 22, then sys.exit is next
EndLine ==
    /\ w_pc \in {"listening_nl", "modified_nl", "stopping_nl", "usage_nl"}
    /\ ~w_pending
    /\ w_open' = FALSE
    /\ w_pc' = CASE w_pc = "stopping_nl" -> "stopping"
                 [] w_pc = "usage_nl" -> "usage"
                 [] OTHER -> "listening"
    /\ UNCHANGED <<w_argv, delivered, printed, interrupts, w_pending, runVars, bumpVars,
                   gitVars, envVars>>

\* sys.exit(0) of line 10, sys.exit(1) of line 23; a SIGINT received while the
\* process exits is not served
SysExit ==
    /\ w_pc \in {"stopping", "usage"}
    /\ w_pc' = IF w_pc = "stopping" THEN "exit0" ELSE "exit1"
    /\ UNCHANGED <<w_argv, delivered, printed, w_open, interrupts, w_pending, runVars,
                   bumpVars, gitVars, envVars>>

\* line 15: inotify.event_gen(yield_nones=False) yields the next event
NextEvent ==
    /\ w_pc = "listening"
    /\ ~w_pending
    /\ Len(delivered) < MaxEvents
    /\ \E event \in Events(w_argv[1]) : delivered' = Append(delivered, event)
    /\ w_pc' = "handling"
    /\ UNCHANGED <<w_argv, printed, w_open, interrupts, w_pending, runVars, bumpVars,
                   gitVars, envVars>>

\* lines 16-18 for the event just yielded: the test, and the text of the line
HandleEvent ==
    /\ w_pc = "handling"
    /\ ~w_pending
    /\ LET event == delivered[Len(delivered)]
       IN IF IsModify(event)
          THEN /\ printed' = Wrote(ModifiedLine(event))
               /\ w_open' = TRUE
               /\ w_pc' = "modified_nl"
          ELSE /\ UNCHANGED <<printed, w_open>>
               /\ w_pc' = "listening"
    /\ UNCHANGED <<w_argv, delivered, interrupts, w_pending, runVars, bumpVars, gitVars,
                   envVars>>

\* positions inside a print: a write to sys.stdout is under way
InPrint == {"listening_nl", "modified_nl", "stopping_nl", "stopping_inside"}

\* signal_handler is called for the SIGINTs noted, at any point once it is
\* installed, also inside an earlier call of it that has not yet exited, and
\* inside a print whose write the signal interrupted
signal_handler ==
    /\ w_pc \in {"installed", "listening_nl", "listening", "handling", "modified_nl",
                 "stopping_entry", "stopping_inside", "stopping_nl", "stopping"}
    /\ w_pending
    /\ w_pending' = FALSE
    /\ w_pc' = IF w_pc \in InPrint THEN "stopping_inside" ELSE "stopping_entry"
    /\ UNCHANGED <<w_argv, delivered, printed, w_open, interrupts, runVars, bumpVars,
                   gitVars, envVars>>

\* line 9, print: the text is written, its newline not yet; called inside an
\* interrupted write of sys.stdout it may instead raise RuntimeError (reentrant
\* call), which nothing catches: the line of the interrupted print is complete
\* in the output, "Stopping..." is not written and sys.exit(0) is not reached
PrintStopping ==
    /\ w_pc \in {"stopping_entry", "stopping_inside"}
    /\ ~w_pending
    /\ \/ /\ printed' = Wrote(StoppingLine)
          /\ w_open' = TRUE
          /\ w_pc' = "stopping_nl"
       \/ /\ w_pc = "stopping_inside"
          /\ UNCHANGED printed
          /\ w_open' = FALSE
          /\ w_pc' = "crashed"
    /\ UNCHANGED <<w_argv, delivered, interrupts, w_pending, runVars, bumpVars, gitVars,
                   envVars>>

InitWatch ==
    /\ pc = "off"
    /\ RunInit
    /\ version_type = "force"
    /\ env_ORIGIN = Unset
    /\ push_default = "origin"
    /\ beta = WithVersion(V123)
    /\ manifest = WithVersion(V123)
    /\ head = Tree(manifest, beta)
    /\ index = head
    /\ localTags = [n \in {} |-> OldTree]
    /\ remoteTags = [r \in Remotes |-> {}]
    /\ remoteBranch = [r \in Remotes |-> head]
    /\ w_pc = "start"
    /\ w_argv \in {<<>>, <<WatchDir>>}
    /\ delivered = <<>>
    /\ printed = <<>>
    /\ w_open = FALSE
    /\ interrupts = 0
    /\ w_pending = FALSE

NextWatch ==
    \/ Sigint
    \/ WatchUsage
    \/ KeyboardInterrupt
    \/ WatchMain
    \/ PrintListening
    \/ EndLine
    \/ SysExit
    \/ NextEvent
    \/ HandleEvent
    \/ signal_handler
    \/ PrintStopping

SpecWatch == InitWatch /\ [][NextWatch]_vars

(***************************************************************************)
(* Properties                                                              *)
(***************************************************************************)
Returned == trace # <<>>

AsciiDigits == {"0", "1", "2", "3", "4", "5", "6", "7", "8", "9"}

IsDigitString(p) == p # <<>> /\ \A i \in 1..Len(p) : p[i] \in AsciiDigits

AsciiVal(c) ==
    CASE c = "0" -> 0 [] c = "1" -> 1 [] c = "2" -> 2 [] c = "3" -> 3 [] c = "4" -> 4
      [] c = "5" -> 5 [] c = "6" -> 6 [] c = "7" -> 7 [] c = "8" -> 8 [] c = "9" -> 9

\* value of a string of the digits 0-9
RECURSIVE Dec(_)
Dec(p) == IF p = <<>> THEN 0 ELSE 10 * Dec(SubSeq(p, 1, Len(p) - 1)) + AsciiVal(p[Len(p)])

\* MAJOR.MINOR.PATCH, three non-negative integers written in the digits 0-9
IsThreeNaturals(s) ==
    /\ Len(Split(s)) = 3
    /\ \A i \in 1..3 : IsDigitString(Split(s)[i])

\* a component as str() of an int prints it
IsCanonicalInt(p) ==
    \/ p = <<"0">>
    \/ IsDigitString(p) /\ p[1] # "0"
    \/ Len(p) >= 2 /\ p[1] = "-" /\ IsDigitString(Tail(p)) /\ p[2] # "0"

IsCanonicalVersion(s) ==
    /\ Len(Split(s)) = 3
    /\ \A i \in 1..3 : IsCanonicalInt(Split(s)[i])

Component(s, i) == Dec(Split(s)[i])

\* the beta version read is one bump_version accepts, of non-negative integers
IsNonNegativeVersion(s) ==
    \/ IsThreeNaturals(s)
    \/ /\ Len(Split(s)) = 3
       /\ \A i \in 1..3 : IsDigitBody(Body(Split(s)[i]))
       /\ \A i \in 1..3 :
             LET t == Strip(Split(s)[i])
             IN HasSign(t) /\ Head(t) = "-" =>
                   \A j \in 2..Len(t) : t[j] \in Digits => DigitVal(t[j]) = 0

\* the component a mode increments
Bumped(mode) == CASE mode = "major" -> 1 [] mode = "minor" -> 2 [] OTHER -> 3

\* a literal of MaxStrDigits digits, all of them nines: one more has no str()
IsLargest(p) ==
    /\ DigitCount(p) = MaxStrDigits
    /\ \A j \in 1..Len(p) : p[j] \in Digits => DigitVal(p[j]) = 9

\* each component is written with at most MaxStrDigits digits, and so is the
\* component the mode increments once incremented
WithinStrDigits(s, mode) ==
    \A i \in 1..Len(Split(s)) :
       /\ DigitCount(Split(s)[i]) <= MaxStrDigits
       /\ i = Bumped(mode) => ~IsLargest(Split(s)[i])

BumpedByMode ==
    /\ Returned
    /\ beta.data.version = new_beta_version
    /\ IsThreeNaturals(new_beta_version)
    /\ IsCanonicalVersion(new_beta_version)
    /\ IsThreeNaturals(current_version) =>
          \A i \in 1..3 : ParseVersion(current_version)[i] = Component(current_version, i)
    /\ LET a == ParseVersion(current_version)[1]
           b == ParseVersion(current_version)[2]
           c == ParseVersion(current_version)[3]
           x == Component(new_beta_version, 1)
           y == Component(new_beta_version, 2)
           z == Component(new_beta_version, 3)
       IN /\ version_type = "major" => x = a + 1 /\ y = 0 /\ z = 0
          /\ version_type = "minor" => x = a /\ y = b + 1 /\ z = 0
          /\ version_type = "patch" => x = a /\ y = b /\ z = c + 1

\* C1 as stated: for a beta version MAJOR.MINOR.PATCH of three non-negative
\* integers and a mode in {major, minor, patch}, bump_version returns, and the
\* version it returns and writes to the beta manifest has exactly three integer
\* components: major gives (major+1).0.0, minor gives major.(minor+1).0, patch
\* gives major.minor.(patch+1).
C1_BumpByMode ==
    (/\ pc \notin {"main", "bump_version"}
     /\ version_type \in {"major", "minor", "patch"}
     /\ IsNonNegativeVersion(current_version))
    => BumpedByMode

\* C1 amended: the same, for a beta version whose three non-negative integers
\* are each written with at most 4300 digits and whose incremented component
\* is still written with at most 4300 digits; for any other such version
\* bump_version raises ValueError and writes nothing.
C1_BumpWithinStrDigits ==
    (/\ pc \notin {"main", "bump_version"}
     /\ version_type \in {"major", "minor", "patch"}
     /\ IsNonNegativeVersion(current_version))
    => IF WithinStrDigits(current_version, version_type)
       THEN BumpedByMode
       ELSE /\ pc = "crashed"
            /\ err \in {"ValueError: int/unpack", "ValueError: str"}
            /\ ~Returned
            /\ beta = WithVersion(current_version)

C1_Witness ==
    /\ pc = "set_version"
    /\ version_type = "minor"
    /\ current_version = <<"0", "9", ".", "9", ".", "9">>
    /\ new_beta_version = <<"9", ".", "1", "0", ".", "0">>

BothWritten == Len(trace) >= 2

\* C2 as stated: in mode force the returned version, and the version written to
\* the manifests, is the version string read from the beta manifest.
C2_ForceReturnsInput ==
    (version_type = "force" /\ Returned)
    => /\ new_beta_version = current_version
       /\ beta.data.version = current_version
       /\ BothWritten => manifest.data.version = current_version

\* C2 amended: in mode force the returned version, written to both manifests, is
\* the canonical rendering of the three integers the input parses to; it equals
\* the input exactly when the input is already so rendered (digits 0-9 only, no
\* leading zero, no plus sign, no minus zero, no whitespace, no underscore), and
\* force applied to the result returns the result.
C2_ForceCanonical ==
    (version_type = "force" /\ Returned)
    => /\ IsCanonicalVersion(new_beta_version)
       /\ ParseVersion(new_beta_version) = ParseVersion(current_version)
       /\ (new_beta_version = current_version) <=> IsCanonicalVersion(current_version)
       /\ NewVersion(new_beta_version, "force") = new_beta_version
       /\ beta.data.version = new_beta_version
       /\ BothWritten => manifest.data.version = new_beta_version

C2_Witness ==
    /\ pc = "delete_remote_tag"
    /\ version_type = "force"
    /\ current_version = <<"0", "9", ".", "0", ".", "0">>
    /\ new_beta_version = <<"9", ".", "0", ".", "0">>
    /\ manifest.data.version = new_beta_version

GitOps ==
    {"delete_remote_tag", "delete_local_tag", "add", "commit", "push", "create_tag",
     "push_tag"}

GitAttempted == \E i \in 1..Len(trace) : trace[i][1] \in GitOps

ManifestsAgree ==
    /\ HasVersion(manifest)
    /\ HasVersion(beta)
    /\ manifest.data.version = beta.data.version

\* C3: after a run that completes, manifest.json and manifest-beta.json carry the
\* same version, the one bump_version returned; and no source-control operation is
\* attempted, or about to be, while the two versions differ.
C3_Propagation ==
    /\ pc = "done" =>
          /\ ManifestsAgree
          /\ beta.data.version = new_beta_version
          /\ new_version = new_beta_version
    /\ (pc \in GitOps \/ GitAttempted) => ManifestsAgree

C3_Witness ==
    /\ pc = "done"
    /\ version_type = "minor"
    /\ manifest.data.version = <<"1", ".", "3", ".", "0">>
    /\ beta.data.version = <<"1", ".", "3", ".", "0">>

WellFormed(file) ==
    HasVersion(file) /\ file.str_version /\ Unpacks(file.data.version)

\* C4: with a mode outside {major, minor, patch, force} no step writes a manifest
\* or changes the index, HEAD, a tag or a remote, none is ever attempted, and with a
\* well-formed beta manifest bump_version ends the run with the invalid-argument
\* error.
C4_InvalidModeNoEffect ==
    [][version_type \notin VersionTypes =>
          /\ UNCHANGED <<beta, manifest, gitVars>>
          /\ trace' = <<>>
          /\ (pc = "bump_version" /\ WellFormed(beta)) =>
                (pc' = "crashed" /\ err' = "ValueError: Invalid version type")]_vars

C4_Witness ==
    /\ pc = "crashed"
    /\ version_type = "bogus"
    /\ err = "ValueError: Invalid version type"
    /\ beta = WithVersion(V123)

LastOp == trace[Len(trace)][1]

\* C5: delete_tag raises nothing: the remote deletion is attempted, then the local
\* one whatever the remote one did, then the run goes on to staging; a deletion of
\* a tag that does not exist leaves the tags as they were.
C5_DeleteTagSwallows ==
    [][/\ pc = "delete_remote_tag" =>
             /\ pc' = "delete_local_tag"
             /\ err' = ""
             /\ LastOp' = "delete_remote_tag"
             /\ UNCHANGED localTags
             /\ new_version \notin remoteTags[REMOTE] => UNCHANGED remoteTags
       /\ pc = "delete_local_tag" =>
             /\ pc' = "add"
             /\ err' = ""
             /\ LastOp' = "delete_local_tag"
             /\ UNCHANGED remoteTags
             /\ new_version \notin DOMAIN localTags => UNCHANGED localTags]_vars

C5_Witness ==
    /\ pc = "add"
    /\ trace[3] = <<"delete_remote_tag", "swallowed">>
    /\ trace[4] = <<"delete_local_tag", "swallowed">>
    /\ new_version \notin DOMAIN localTags
    /\ new_version \notin remoteTags[REMOTE]

\* C6: when the new tag is about to be created no tag of that name exists locally
\* or on the configured remote, and when it is about to be pushed none exists on
\* the configured remote.
C6_NoTagOfThatName ==
    /\ pc = "create_tag" =>
          /\ new_version \notin DOMAIN localTags
          /\ new_version \notin remoteTags[REMOTE]
    /\ pc = "push_tag" => new_version \notin remoteTags[REMOTE]

\* C7: the branch push goes to the configured remote REMOTE, and is forced exactly
\* when the mode is force.
C7_BranchPush ==
    branch_push.attempted =>
       /\ branch_push.remote = REMOTE
       /\ branch_push.force <=> (version_type = "force")

MapSeq(Op(_), s) == [i \in 1..Len(s) |-> Op(s[i])]

NamesModify(event) == "IN_MODIFY" \in {event.type_names[i] : i \in 1..Len(event.type_names)}

ExpectedLine(event) == <<"Modified file: ">> \o event.path \o <<"/", event.filename>>

IsModifiedLine(line) == line # <<>> /\ line[1] = "Modified file: "

ExpectedLines == MapSeq(ExpectedLine, SelectSeq(delivered, NamesModify))

\* the line is the text followed by nothing but "Stopping..." texts
WithStopping(line, text) ==
    /\ Len(line) >= Len(text)
    /\ SubSeq(line, 1, Len(text)) = text
    /\ \A j \in (Len(text) + 1)..Len(line) : line[j] = "Stopping..."

Interrupted ==
    /\ interrupts > 0
    /\ w_pc \in {"stopping_entry", "stopping_inside", "stopping_nl", "stopping", "exit0",
                 "crashed"}

\* the "Stopping..." texts among the lines
RECURSIVE StoppingTexts(_)
StoppingTexts(lines) ==
    IF lines = <<>> THEN 0
    ELSE Cardinality({j \in 1..Len(Head(lines)) : Head(lines)[j] = "Stopping..."})
            + StoppingTexts(Tail(lines))

\* C8 as stated, read at the moments the watcher waits for an event or has
\* exited on the interrupt: there is one "Modified file" line (whatever follows
\* it on that line) for each delivered event whose type names include IN_MODIFY,
\* in delivery order, and none for any other event.
C8_OneLinePerModify ==
    w_pc \in {"listening", "exit0"} =>
       LET got == SelectSeq(printed, IsModifiedLine)
       IN /\ Len(got) = Len(ExpectedLines)
          /\ \A i \in 1..Len(got) :
                SubSeq(got[i], 1, Len(ExpectedLines[i])) = ExpectedLines[i]

\* C8 amended: whenever the watcher waits for the next event, its output is the
\* listening line and then exactly one line "Modified file: <path>/<filename>"
\* for each delivered event whose type names include IN_MODIFY, in delivery order,
\* nothing for any other event. At other moments the line of the last delivered
\* event alone may be missing (it is being handled, or an interrupt came before
\* its print and the watcher stops, with status 0 or on an error of the
\* handler's print) and "Stopping..." texts may follow the last text on the
\* same line: at most one for each interrupt received, at least one once the
\* watcher has exited with status 0.
C8_LinePerHandledModify ==
    LET got == SelectSeq(printed, IsModifiedLine)
        other == SelectSeq(printed, LAMBDA line : ~IsModifiedLine(line))
        last == Len(delivered)
    IN /\ w_pc = "listening" =>
             /\ printed = <<ListeningLine(w_argv[1])>> \o ExpectedLines
             /\ ~w_open
       /\ Len(got) \in {Len(ExpectedLines), Len(ExpectedLines) - 1}
       /\ Len(got) < Len(ExpectedLines) =>
             /\ NamesModify(delivered[last])
             /\ w_pc = "handling" \/ Interrupted
       /\ \A i \in 1..Len(got) :
             \/ got[i] = ExpectedLines[i]
             \/ /\ i = Len(got)
                /\ Interrupted
                /\ WithStopping(got[i], ExpectedLines[i])
       /\ \A i \in 1..Len(other) :
             \/ other[i] = UsageLine
             \/ other[i] # <<>> /\ WithStopping(other[i], <<>>)
             \/ /\ i = 1
                /\ WithStopping(other[i], ListeningLine(w_argv[1]))
       /\ StoppingTexts(printed) <= interrupts
       /\ w_pc \in {"stopping_nl", "stopping", "exit0"} => StoppingTexts(printed) >= 1

C8_Witness ==
    /\ w_pc = "listening"
    /\ Len(delivered) = 3
    /\ delivered[1].type_names = <<"IN_CREATE">>
    /\ delivered[2] = [type_names |-> <<"IN_MODIFY">>, path |-> <<WatchDir>>,
                       filename |-> "x.txt"]
    /\ delivered[3].type_names = <<"IN_DELETE">>
    /\ printed = <<ListeningLine(WatchDir), <<"Modified file: ", WatchDir, "/", "x.txt">>>>

StepOrder ==
    <<"write_beta", "write_manifest", "delete_remote_tag", "delete_local_tag", "add",
      "commit", "push", "create_tag", "push_tag", "sleep", "get_releases">>

Ops(t) == [i \in 1..Len(t) |-> t[i][1]]

Completed(op) == \E i \in 1..Len(trace) : trace[i][1] = op /\ trace[i][2] # "raised"

\* C9: the steps are attempted in the fixed order, each at most once and all of
\* them in a run that completes; nothing is attempted after an unhandled failure;
\* what a completed step did stays done; a release that is not found ends the run
\* normally after the one query.
C9_LinearOnce ==
    [][/\ Ops(trace') = SubSeq(StepOrder, 1, Len(trace'))
       /\ Len(trace') \in {Len(trace), Len(trace) + 1}
       /\ SubSeq(trace', 1, Len(trace)) = trace
       /\ pc # "crashed"
       /\ \A i \in 1..Len(trace) : trace[i][2] # "raised"
       /\ pc' = "crashed" <=> (err' # "")
       /\ Completed("write_beta") => beta' = beta
       /\ Completed("write_manifest") => manifest' = manifest
       /\ Completed("add") => index' = index
       /\ Completed("commit") => head' = head
       /\ Completed("push") => remoteBranch' = remoteBranch
       /\ Completed("create_tag") => localTags' = localTags
       /\ Completed("push_tag") => remoteTags' = remoteTags
       /\ pc' = "done" =>
             /\ Ops(trace') = StepOrder
             /\ err' = ""
             /\ pc = "get_releases"
       /\ (pc = "get_releases" /\ out' = Append(out, NotFoundLine(new_version))) =>
             pc' = "done"]_vars

C9_Witness ==
    /\ pc = "done"
    /\ out = <<WaitingLine, NotFoundLine(new_version)>>
    /\ Ops(trace) = StepOrder
    /\ waited = SleepSeconds

\* C10: once main has created the new tag, the tag points at HEAD, HEAD is what
\* the branch push pushed, and HEAD records both manifests with the tag name as
\* their version.
C10_TagOnBumpCommit ==
    Completed("create_tag") =>
       /\ localTags[new_version] = head
       /\ remoteBranch[push_default] = head
       /\ HasVersion(head.manifest) /\ head.manifest.data.version = new_version
       /\ HasVersion(head.beta) /\ head.beta.data.version = new_version

====
